---- MODULE Spec2Model ----
(***************************************************************************)
(* Model of wf_analyzer.py: the classifier (process_raw_transactions) and  *)
(* the ledger merge performed by the script body.                          *)
(*                                                                         *)
(* Text that the script inspects character by character (dates, amounts,   *)
(* descriptions, vendor patterns, the operator's answer) is a sequence of  *)
(* one-character strings.  Column names, vendor names and cash-flow tags   *)
(* are only ever compared for equality and are plain strings.              *)
(* A numeric amount is an integer number of hundredths.                    *)
(*                                                                         *)
(* A run is a function of the contents of the three files and of the       *)
(* operator's answer.  Failures of the file system itself (a ledger that   *)
(* cannot be opened, a to_csv that raises, lines 161-163, 257-259 and      *)
(* 299-301) are outside the model.                                         *)
(***************************************************************************)
EXTENDS Integers, Sequences, FiniteSets, TLC

VARIABLES
    cfg_file,               \* config.json
    ledger,                 \* processed_transactions.csv
    raw_file,               \* WF_march_april_25.csv
    pc,                     \* "start", "confirm" (blocked in input()), "exit"
    exit_code,              \* process exit status, -1 while running
    outcome,                \* which path ended the run
    df_existing,            \* the script's df_existing
    df_new_processed,       \* the script's df_new_processed / df_processed
    duplicate_keys_in_new,  \* the script's duplicate_keys_in_new
    removed,                \* rows dropped for a non-numeric amount (line 65)
    user_input,             \* the answer read at line 221
    asked,                  \* input() was called in this run
    writes,                 \* to_csv calls on the ledger in this run
    ledger_at_start,        \* the ledger file when this run started (and the
                            \* previous run, if any, ended)
    prev_outcome,           \* outcome of the previous run
    runs,                   \* runs started so far
    fv_description,         \* classifier input: one description
    fv_patterns_wf,         \* classifier input: patterns_wf
    fv_vendor,              \* find_vendor's result
    fv_pc                   \* "idle", "ready", "done"

main_vars == <<cfg_file, ledger, raw_file, pc, exit_code, outcome, df_existing,
               df_new_processed, duplicate_keys_in_new, removed, user_input,
               asked, writes, ledger_at_start, prev_outcome, runs>>
fv_vars == <<fv_description, fv_patterns_wf, fv_vendor, fv_pc>>
vars == <<main_vars, fv_vars>>

(***************************************************************************)
(* Bounds                                                                  *)
(***************************************************************************)
MaxRows == 2
MaxRuns == 2
MaxDescLen == 2

(***************************************************************************)
(* Text                                                                    *)
(***************************************************************************)
\* str.lower() on one character
Lower(c) ==
    CASE c = "A" -> "a"
      [] c = "B" -> "b"
      [] c = "C" -> "c"
      [] c = "N" -> "n"
      [] c = "Y" -> "y"
      [] OTHER -> c

\* str.lower()
LowerStr(s) == [i \in 1..Len(s) |-> Lower(s[i])]

\* Python's `pat in text` on strings
Contains(pat, text) ==
    \E i \in 0..(Len(text) - Len(pat)) : SubSeq(text, i + 1, i + Len(pat)) = pat

Digits == {"0", "1", "2", "3", "4", "5", "6", "7", "8", "9"}

DigitVal(c) ==
    CASE c = "0" -> 0 [] c = "1" -> 1 [] c = "2" -> 2 [] c = "3" -> 3
      [] c = "4" -> 4 [] c = "5" -> 5 [] c = "6" -> 6 [] c = "7" -> 7
      [] c = "8" -> 8 [] c = "9" -> 9

DigitChar(d) ==
    CASE d = 0 -> "0" [] d = 1 -> "1" [] d = 2 -> "2" [] d = 3 -> "3"
      [] d = 4 -> "4" [] d = 5 -> "5" [] d = 6 -> "6" [] d = 7 -> "7"
      [] d = 8 -> "8" [] d = 9 -> "9"

IsDigits(s) == Len(s) > 0 /\ \A i \in 1..Len(s) : s[i] \in Digits

RECURSIVE NatOf(_)
NatOf(s) == IF s = <<>> THEN 0
            ELSE 10 * NatOf(SubSeq(s, 1, Len(s) - 1)) + DigitVal(s[Len(s)])

RECURSIVE NatStr(_)
NatStr(n) == IF n < 10 THEN <<DigitChar(n)>>
             ELSE NatStr(n \div 10) \o <<DigitChar(n % 10)>>

(***************************************************************************)
(* Numbers as pandas parses and prints them                                *)
(***************************************************************************)
NaN == [nan |-> TRUE, int |-> FALSE, val |-> 0]

\* One cell parsed as a number (read_csv's inference, pd.to_numeric with
\* errors='coerce'): an integer literal, a decimal literal with one or two
\* fraction digits, or NaN.  `int` tells an integer literal from a decimal.
ParseNumber(text) ==
    LET neg  == Len(text) > 0 /\ text[1] = "-"
        body == IF neg THEN Tail(text) ELSE text
        sign == IF neg THEN -1 ELSE 1
        dots == {i \in 1..Len(body) : body[i] = "."}
    IN  IF IsDigits(body)
        THEN [nan |-> FALSE, int |-> TRUE, val |-> sign * 100 * NatOf(body)]
        ELSE IF Cardinality(dots) = 1
        THEN LET p     == CHOOSE i \in dots : TRUE
                 whole == SubSeq(body, 1, p - 1)
                 frac  == SubSeq(body, p + 1, Len(body))
             IN  IF IsDigits(whole) /\ IsDigits(frac) /\ Len(frac) <= 2
                 THEN [nan |-> FALSE, int |-> FALSE,
                       val |-> sign * (100 * NatOf(whole)
                                  + (IF Len(frac) = 1 THEN 10 ELSE 1) * NatOf(frac))]
                 ELSE NaN
        ELSE NaN

\* dtype of a numeric column holding these cells: int64 when every cell is an
\* integer literal, float64 as soon as one is a decimal or missing
ColumnDtype(cells) ==
    IF \A i \in 1..Len(cells) : ~cells[i].nan /\ cells[i].int
    THEN "int64" ELSE "float64"

\* str() of a value of a numeric column, which is also what to_csv prints:
\* 5 for int64, 5.0 / 2.5 / 2.25 for float64
NumberStr(val, dtype) ==
    LET mag   == IF val < 0 THEN -val ELSE val
        sign  == IF val < 0 THEN <<"-">> ELSE <<>>
        whole == mag \div 100
        frac  == mag % 100
    IN  IF dtype = "int64" THEN sign \o NatStr(whole)
        ELSE sign \o NatStr(whole) \o <<".">> \o
             (IF frac % 10 = 0 THEN <<DigitChar(frac \div 10)>>
              ELSE <<DigitChar(frac \div 10), DigitChar(frac % 10)>>)

(***************************************************************************)
(* Files                                                                   *)
(***************************************************************************)
\* header of the ledger as the script writes it (line 110)
LedgerColumns == <<"date", "amount", "description", "vendors", "cash_flow">>

NoFile == [exists |-> FALSE, columns |-> <<>>, rows |-> <<>>]

Range(s) == {s[i] : i \in 1..Len(s)}

\* DataFrame.to_csv(processed_csv_file, index=False): every amount printed
\* in the form of the column's dtype
to_csv(df) ==
    [exists  |-> TRUE,
     columns |-> LedgerColumns,
     rows    |-> [i \in 1..Len(df.rows) |->
                    [date        |-> df.rows[i].date,
                     amount      |-> NumberStr(df.rows[i].amount, df.dtype),
                     description |-> df.rows[i].description,
                     vendors     |-> df.rows[i].vendors,
                     cash_flow   |-> df.rows[i].cash_flow]]]

\* pd.read_csv(processed_csv_file): the amount column parsed back, its dtype
\* inferred from the text of the whole column
read_csv(file) ==
    LET cells == [i \in 1..Len(file.rows) |-> ParseNumber(file.rows[i].amount)]
    IN  [dtype |-> ColumnDtype(cells),
         rows  |-> [i \in 1..Len(file.rows) |->
                      [date        |-> file.rows[i].date,
                       amount      |-> cells[i].val,
                       description |-> file.rows[i].description,
                       vendors     |-> file.rows[i].vendors,
                       cash_flow   |-> file.rows[i].cash_flow]]]

EmptyFrame == [dtype |-> "float64", rows |-> <<>>]

(***************************************************************************)
(* Configuration loading, lines 117-137                                    *)
(***************************************************************************)
\* variant: a configuration that cannot be loaded falls back to empty defaults
LoadConfig_defaults(file) ==
    IF file.status = "ok"
    THEN [ok |-> TRUE, patterns_wf |-> file.patterns_wf,
          cash_investments |-> file.cash_investments]
    ELSE [ok |-> TRUE, patterns_wf |-> <<>>, cash_investments |-> <<>>]

\* json.load and the two .get() calls; a missing file or invalid JSON ends
\* the run (ok = FALSE)
LoadConfig(file) ==
    IF file.status = "ok"
    THEN [ok |-> TRUE, patterns_wf |-> file.patterns_wf,
          cash_investments |-> file.cash_investments]
    ELSE [ok |-> FALSE, patterns_wf |-> <<>>, cash_investments |-> <<>>]

(***************************************************************************)
(* The classifier: process_raw_transactions, lines 14-110                  *)
(***************************************************************************)
\* line 40, 0-indexed column labels
cols_to_drop_indices == {2, 3}

\* lines 41-45: the 1-indexed positions of the columns that remain
RemainingColumns(ncols) ==
    SelectSeq([i \in 1..ncols |-> i], LAMBDA i : (i - 1) \notin cols_to_drop_indices)

\* line 49
expected_renamed_cols == <<"date", "amount", "description">>

\* variant: a truthiness test, which also drops the rows whose amount is 0
dropna_falsy(rows) == SelectSeq(rows, LAMBDA r : ~r.amount.nan /\ r.amount.val # 0)

\* line 63: raw_df.dropna(subset=['amount'])
dropna(rows) == SelectSeq(rows, LAMBDA r : ~r.amount.nan)

RECURSIVE find_vendor_from(_, _, _)
\* lines 75-83: the loop over patterns_wf.items(), from entry i on
find_vendor_from(description_str, patterns_wf, i) ==
    IF i > Len(patterns_wf) THEN "Other"
    ELSE IF /\ patterns_wf[i].is_list
            /\ \E k \in 1..Len(patterns_wf[i].patterns) :
                   Contains(LowerStr(patterns_wf[i].patterns[k]), description_str)
         THEN patterns_wf[i].vendor
         ELSE find_vendor_from(description_str, patterns_wf, i + 1)

\* variant: the pattern is not lowercased before the comparison
RECURSIVE find_vendor_raw_pattern_from(_, _, _)
find_vendor_raw_pattern_from(description_str, patterns_wf, i) ==
    IF i > Len(patterns_wf) THEN "Other"
    ELSE IF /\ patterns_wf[i].is_list
            /\ \E k \in 1..Len(patterns_wf[i].patterns) :
                   Contains(patterns_wf[i].patterns[k], description_str)
         THEN patterns_wf[i].vendor
         ELSE find_vendor_raw_pattern_from(description_str, patterns_wf, i + 1)

find_vendor_raw_pattern(description, patterns_wf) ==
    find_vendor_raw_pattern_from(LowerStr(description), patterns_wf, 1)

\* lines 69-83
find_vendor(description, patterns_wf) ==
    find_vendor_from(LowerStr(description), patterns_wf, 1)

\* variant: amount > 0 in place of amount >= 0
determine_cash_flow_strict(amount, vendor, cash_investments) ==
    IF amount > 0 THEN "cash_in"
    ELSE IF \E i \in 1..Len(cash_investments) : cash_investments[i] = vendor
         THEN "cash_investments"
         ELSE "cash_out"

\* lines 92-101
determine_cash_flow(amount, vendor, cash_investments) ==
    IF amount >= 0 THEN "cash_in"
    ELSE IF \E i \in 1..Len(cash_investments) : cash_investments[i] = vendor
         THEN "cash_investments"
         ELSE "cash_out"

\* lines 14-110.  raised: the ValueError of line 51 when more than three
\* columns remain (three names for that many columns).  With fewer than three
\* remaining columns the result is the empty DataFrame of line 55.  When every
\* row is dropped the result has no rows (pandas may instead raise at line 106
\* on the empty frame; the callers end the run with exit status 1 either way).
process_raw_transactions(raw_df, patterns_wf, cash_investments) ==
    LET ncols  == IF raw_df = <<>> THEN 0 ELSE Len(raw_df[1])
        remain == RemainingColumns(ncols)
    IN  IF Len(remain) < Len(expected_renamed_cols)
        THEN [raised |-> FALSE, removed |-> 0, dtype |-> "float64", rows |-> <<>>]
        ELSE IF Len(remain) > Len(expected_renamed_cols)
        THEN [raised |-> TRUE, removed |-> 0, dtype |-> "float64", rows |-> <<>>]
        ELSE
        LET named == [i \in 1..Len(raw_df) |->
                        [date        |-> raw_df[i][remain[1]],
                         amount      |-> ParseNumber(raw_df[i][remain[2]]),
                         description |-> raw_df[i][remain[3]]]]
            dtype == ColumnDtype([i \in 1..Len(named) |-> named[i].amount])
            kept  == dropna(named)
            row(r) ==
                LET v == find_vendor(r.description, patterns_wf)
                IN  [date        |-> r.date,
                     amount      |-> r.amount.val,
                     description |-> r.description,
                     vendors     |-> v,
                     cash_flow   |-> determine_cash_flow(r.amount.val, v,
                                                         cash_investments)]
        IN  [raised  |-> FALSE,
             removed |-> Len(named) - Len(kept),
             dtype   |-> dtype,
             rows    |-> [i \in 1..Len(kept) |-> row(kept[i])]]

(***************************************************************************)
(* The merge: identity keys and duplicate detection, lines 149-251         *)
(***************************************************************************)
\* line 149
key_cols == <<"date", "amount", "description">>

\* line 151
HasKeyCols(file) == \A i \in 1..Len(key_cols) : key_cols[i] \in Range(file.columns)

\* variant: key_cols also holds the vendors column
RowKey_with_vendor(r, dtype) ==
    r.date \o <<"_">> \o NumberStr(r.amount, dtype) \o <<"_">> \o r.description
           \o <<"_">> \o <<r.vendors>>

\* lines 157 and 198: [key_cols].astype(str).agg('_'.join, axis=1), one row
RowKey(r, dtype) ==
    r.date \o <<"_">> \o NumberStr(r.amount, dtype) \o <<"_">> \o r.description

\* the '_key' column of a DataFrame
Keys(df) == [i \in 1..Len(df.rows) |-> RowKey(df.rows[i], df.dtype)]

\* line 209: the keys of the new rows that are keys of existing rows
DuplicateKeysInNew(df_new, df_old) ==
    SelectSeq(Keys(df_new), LAMBDA k : k \in Range(Keys(df_old)))

\* variant: the negation of line 231 is missing
NewUnique_keeps_duplicates(df_new, dup_keys) ==
    [dtype |-> df_new.dtype,
     rows  |-> SelectSeq(df_new.rows,
                         LAMBDA r : RowKey(r, df_new.dtype) \in Range(dup_keys))]

\* lines 231 and 238: df_new_unique
NewUnique(df_new, dup_keys) ==
    [dtype |-> df_new.dtype,
     rows  |-> SelectSeq(df_new.rows,
                         LAMBDA r : RowKey(r, df_new.dtype) \notin Range(dup_keys))]

\* line 251: pd.concat([df_existing, df_new_unique], ignore_index=True); an
\* int64 and a float64 amount column combine to float64
concat(df_a, df_b) ==
    [dtype |-> IF df_a.dtype = "int64" /\ df_b.dtype = "int64"
               THEN "int64" ELSE "float64",
     rows  |-> df_a.rows \o df_b.rows]

\* variant: only the answer n cancels
Declined_only_n(answer) == LowerStr(answer) = <<"n">>

\* lines 221-223: input(...).lower() != 'y'
Declined(answer) == LowerStr(answer) # <<"y">>

\* pd.read_csv(csv_new_raw_file, header=None), lines 168-176 and 270-278:
\* FileNotFoundError for a missing file, EmptyDataError (caught by the
\* `except Exception` clause) for a file without any row
read_raw_csv(file) ==
    IF ~file.exists THEN "not_found"
    ELSE IF file.rows = <<>> THEN "error"
    ELSE "ok"

(***************************************************************************)
(* Inputs                                                                  *)
(***************************************************************************)
SeqsUpTo(S, n) == UNION {[1..k -> S] : k \in 0..n}

\* cells of the raw export
Dates == {<<"3", "/", "1">>}
LaterDate == <<"3", "/", "2">>
\* cells that hold the separator of line 157: the columns are free text
SeparatorDate == <<"3", "/", "1", "_", "0">>
SeparatorDescription == <<"0", "_", "c">>
Descriptions == {<<"A", "b">>, <<"c">>}
NumericAmountTexts == {<<"0">>, <<"-", "5">>, <<"-", "5", ".", "0", "0">>}
BadAmountTexts == {<<"x">>}
AmountTexts == NumericAmountTexts \cup BadAmountTexts
Star == <<"*">>
Blank == <<>>

\* the export's five-column rows: date, amount, "*", "", description
Rows5 == {<<d, a, Star, Blank, s>> : d \in Dates, a \in AmountTexts, s \in Descriptions}
         \cup {<<LaterDate, <<"-", "5", ".", "0", "0">>, Star, Blank, <<"A", "b">> >>}
         \cup {<<SeparatorDate, <<"0">>, Star, Blank, <<"c">> >>}
\* rows of other widths
Rows2 == {<<d, <<"-", "5", ".", "0", "0">> >> : d \in Dates}
Rows3 == {<<d, <<"-", "5", ".", "0", "0">>, s>> : d \in Dates, s \in Descriptions}
Rows4 == {<<d, <<"-", "5", ".", "0", "0">>, Star, s>> : d \in Dates, s \in Descriptions}
Rows6 == {<<d, <<"-", "5", ".", "0", "0">>, Star, Blank, s, Blank>> :
             d \in Dates, s \in Descriptions}

Batches == SeqsUpTo(Rows5, MaxRows) \cup SeqsUpTo(Rows2, MaxRows)
           \cup SeqsUpTo(Rows3, MaxRows) \cup SeqsUpTo(Rows4, MaxRows)
           \cup SeqsUpTo(Rows6, MaxRows)

RawFiles == {[exists |-> FALSE, rows |-> <<>>]}
            \cup {[exists |-> TRUE, rows |-> b] : b \in Batches}

Entry(v, pats) == [vendor |-> v, is_list |-> TRUE, patterns |-> pats]
NotAList(v) == [vendor |-> v, is_list |-> FALSE, patterns |-> <<>>]

GoodConfigs ==
    { [status |-> "ok",
       patterns_wf |-> <<Entry("V", << <<"a">> >>), Entry("W", << <<"B">>, <<"c">> >>)>>,
       cash_investments |-> <<"W">>],
      [status |-> "ok",
       patterns_wf |-> <<Entry("W", << <<"B">>, <<"c">> >>), Entry("V", << <<"a">> >>)>>,
       cash_investments |-> <<"V">>],
      [status |-> "ok",
       patterns_wf |-> <<NotAList("V")>>,
       cash_investments |-> <<>>] }

BadConfigs == {[status |-> st, patterns_wf |-> <<>>, cash_investments |-> <<>>] :
                  st \in {"missing", "invalid"}}

ConfigFiles == GoodConfigs \cup BadConfigs

\* ledgers left by earlier runs of the script under the same configuration
SeedBatches ==
    { << <<d, <<"-", "5", ".", "0", "0">>, Star, Blank, <<"A", "b">> >> >> : d \in Dates }
    \cup
    { << <<d, <<"-", "5">>, Star, Blank, <<"A", "b">> >>,
         <<d, <<"0">>, Star, Blank, <<"c">> >> >> : d \in Dates }
    \cup
    { << <<d, <<"0">>, Star, Blank, SeparatorDescription>> >> : d \in Dates }

SeedLedger(batch, file) ==
    LET p == process_raw_transactions(batch, file.patterns_wf, file.cash_investments)
    IN  to_csv([dtype |-> p.dtype, rows |-> p.rows])

\* a ledger whose header does not carry the key columns
Malformed(file) ==
    [file EXCEPT !.columns = <<"Date", "Amount", "Description", "vendors", "cash_flow">>]

Ledgers(file) ==
    {NoFile} \cup {SeedLedger(b, file) : b \in SeedBatches}
             \cup {Malformed(SeedLedger(b, file)) : b \in {x \in SeedBatches : Len(x) = 1}}

Answers == {<<"y">>, <<"Y">>, <<"n">>, <<"y", "e", "s">>, <<>>}

(***************************************************************************)
(* The script body, lines 114-303.  Each action is one path of a run, from *)
(* the start of the script (or from the answer to the prompt) up to the    *)
(* exit, or up to the blocking input() call of line 221.                   *)
(***************************************************************************)
Config == LoadConfig(cfg_file)

\* df_new_processed / df_processed as the script holds it
Processed == process_raw_transactions(raw_file.rows, Config.patterns_wf,
                                      Config.cash_investments)

Frame(p) == [dtype |-> p.dtype, rows |-> p.rows]

\* lines 183-192 and 285-292: status of a run whose processing gave nothing
EmptyResultCode(raw_rows) == IF raw_rows # <<>> THEN 1 ELSE 0

\* the run ends: sys.exit(code), or falling off the end of the script (0)
Exit(code, why) ==
    /\ pc' = "exit"
    /\ exit_code' = code
    /\ outcome' = why

Locals(ex, np, dk, rm) ==
    /\ df_existing' = ex
    /\ df_new_processed' = np
    /\ duplicate_keys_in_new' = dk
    /\ removed' = rm

Frozen == UNCHANGED <<cfg_file, raw_file, ledger_at_start, prev_outcome, runs,
                      fv_vars>>

\* lines 117-137: the configuration cannot be loaded
ConfigFails ==
    /\ pc = "start"
    /\ ~Config.ok
    /\ Exit(1, "config_error")
    /\ UNCHANGED <<ledger, df_existing, df_new_processed, duplicate_keys_in_new,
                   removed, user_input, asked, writes>>
    /\ Frozen

\* lines 141-153: the existing ledger lacks a key column
ExistingLedgerFails ==
    /\ pc = "start"
    /\ Config.ok
    /\ ledger.exists
    /\ ~HasKeyCols(ledger)
    /\ Exit(1, "ledger_schema_error")
    /\ UNCHANGED <<ledger, df_existing, df_new_processed, duplicate_keys_in_new,
                   removed, user_input, asked, writes>>
    /\ Frozen

\* lines 166-176: the ledger was read, the new raw file cannot be
NewRawFails ==
    /\ pc = "start"
    /\ Config.ok
    /\ ledger.exists
    /\ HasKeyCols(ledger)
    /\ read_raw_csv(raw_file) # "ok"
    /\ IF read_raw_csv(raw_file) = "not_found"
       THEN Exit(0, "no_new_file")
       ELSE Exit(1, "raw_unreadable")
    /\ Locals(read_csv(ledger), df_new_processed, duplicate_keys_in_new, removed)
    /\ UNCHANGED <<ledger, user_input, asked, writes>>
    /\ Frozen

\* lines 180-192: the classifier raised or returned an empty DataFrame
NewProcessingFails ==
    /\ pc = "start"
    /\ Config.ok
    /\ ledger.exists
    /\ HasKeyCols(ledger)
    /\ read_raw_csv(raw_file) = "ok"
    /\ Processed.raised \/ Processed.rows = <<>>
    /\ IF Processed.raised
       THEN Exit(1, "rename_error")
       ELSE Exit(EmptyResultCode(raw_file.rows), "empty_result")
    /\ Locals(read_csv(ledger), Frame(Processed), duplicate_keys_in_new,
              Processed.removed)
    /\ UNCHANGED <<ledger, user_input, asked, writes>>
    /\ Frozen

\* lines 195-209, 235-256: no new row is a duplicate, all are appended
AppendAllNew ==
    /\ pc = "start"
    /\ Config.ok
    /\ ledger.exists
    /\ HasKeyCols(ledger)
    /\ read_raw_csv(raw_file) = "ok"
    /\ ~Processed.raised /\ Processed.rows # <<>>
    /\ DuplicateKeysInNew(Frame(Processed), read_csv(ledger)) = <<>>
    /\ ledger' = to_csv(concat(read_csv(ledger), Frame(Processed)))
    /\ writes' = writes + 1
    /\ Exit(0, "appended")
    /\ Locals(read_csv(ledger), Frame(Processed), <<>>, Processed.removed)
    /\ UNCHANGED <<user_input, asked>>
    /\ Frozen

\* lines 195-221: duplicates are reported and the run blocks in input()
AskConfirmation ==
    /\ pc = "start"
    /\ Config.ok
    /\ ledger.exists
    /\ HasKeyCols(ledger)
    /\ read_raw_csv(raw_file) = "ok"
    /\ ~Processed.raised /\ Processed.rows # <<>>
    /\ DuplicateKeysInNew(Frame(Processed), read_csv(ledger)) # <<>>
    /\ pc' = "confirm"
    /\ asked' = TRUE
    /\ Locals(read_csv(ledger), Frame(Processed),
              DuplicateKeysInNew(Frame(Processed), read_csv(ledger)),
              Processed.removed)
    /\ UNCHANGED <<ledger, exit_code, outcome, user_input, writes>>
    /\ Frozen

\* lines 221-226: any answer but y / Y cancels
ConfirmCancel(answer) ==
    /\ pc = "confirm"
    /\ Declined(answer)
    /\ user_input' = answer
    /\ Exit(0, "cancelled")
    /\ UNCHANGED <<ledger, df_existing, df_new_processed, duplicate_keys_in_new,
                   removed, asked, writes>>
    /\ Frozen

\* lines 221-233, 242-256: the unique new rows are appended
ConfirmProceed(answer) ==
    /\ pc = "confirm"
    /\ ~Declined(answer)
    /\ user_input' = answer
    /\ ledger' = to_csv(concat(df_existing,
                               NewUnique(df_new_processed, duplicate_keys_in_new)))
    /\ writes' = writes + 1
    /\ Exit(0, "appended")
    /\ UNCHANGED <<df_existing, df_new_processed, duplicate_keys_in_new,
                   removed, asked>>
    /\ Frozen

\* lines 262-278: no ledger, and the raw file cannot be read
InitialRawFails ==
    /\ pc = "start"
    /\ Config.ok
    /\ ~ledger.exists
    /\ read_raw_csv(raw_file) # "ok"
    /\ IF read_raw_csv(raw_file) = "not_found"
       THEN Exit(1, "raw_missing")
       ELSE Exit(1, "raw_unreadable")
    /\ UNCHANGED <<ledger, df_existing, df_new_processed, duplicate_keys_in_new,
                   removed, user_input, asked, writes>>
    /\ Frozen

\* lines 281-292: no ledger, and the classifier raised or returned nothing
InitialProcessingFails ==
    /\ pc = "start"
    /\ Config.ok
    /\ ~ledger.exists
    /\ read_raw_csv(raw_file) = "ok"
    /\ Processed.raised \/ Processed.rows = <<>>
    /\ IF Processed.raised
       THEN Exit(1, "rename_error")
       ELSE Exit(EmptyResultCode(raw_file.rows), "empty_result")
    /\ Locals(df_existing, Frame(Processed), duplicate_keys_in_new, Processed.removed)
    /\ UNCHANGED <<ledger, user_input, asked, writes>>
    /\ Frozen

\* lines 281-301: no ledger, the whole classified batch becomes the ledger
CreateLedger ==
    /\ pc = "start"
    /\ Config.ok
    /\ ~ledger.exists
    /\ read_raw_csv(raw_file) = "ok"
    /\ ~Processed.raised /\ Processed.rows # <<>>
    /\ ledger' = to_csv(Frame(Processed))
    /\ writes' = writes + 1
    /\ Exit(0, "created")
    /\ Locals(df_existing, Frame(Processed), duplicate_keys_in_new, Processed.removed)
    /\ UNCHANGED <<user_input, asked>>
    /\ Frozen

\* the operator starts the script again on the same files
RunAgain ==
    /\ pc = "exit"
    /\ runs < MaxRuns
    /\ pc' = "start"
    /\ exit_code' = -1
    /\ outcome' = "running"
    /\ Locals(EmptyFrame, EmptyFrame, <<>>, 0)
    /\ user_input' = <<>>
    /\ asked' = FALSE
    /\ writes' = 0
    /\ ledger_at_start' = ledger
    /\ prev_outcome' = outcome
    /\ runs' = runs + 1
    /\ UNCHANGED <<cfg_file, ledger, raw_file, fv_vars>>

FvIdle ==
    /\ fv_description = <<>>
    /\ fv_patterns_wf = <<>>
    /\ fv_vendor = "Other"
    /\ fv_pc = "idle"

Init ==
    /\ cfg_file \in ConfigFiles
    /\ ledger \in Ledgers(cfg_file)
    /\ raw_file \in RawFiles
    /\ pc = "start"
    /\ exit_code = -1
    /\ outcome = "running"
    /\ df_existing = EmptyFrame
    /\ df_new_processed = EmptyFrame
    /\ duplicate_keys_in_new = <<>>
    /\ removed = 0
    /\ user_input = <<>>
    /\ asked = FALSE
    /\ writes = 0
    /\ ledger_at_start = ledger
    /\ prev_outcome = "none"
    /\ runs = 1
    /\ FvIdle

Next ==
    \/ ConfigFails
    \/ ExistingLedgerFails
    \/ NewRawFails
    \/ NewProcessingFails
    \/ AppendAllNew
    \/ AskConfirmation
    \/ \E answer \in Answers : ConfirmCancel(answer)
    \/ \E answer \in Answers : ConfirmProceed(answer)
    \/ InitialRawFails
    \/ InitialProcessingFails
    \/ CreateLedger
    \/ RunAgain

Spec == Init /\ [][Next]_vars

(***************************************************************************)
(* find_vendor on its own: one description against one patterns_wf         *)
(***************************************************************************)
FvAlphabet == {"a", "A", "b", "B"}
FvDescriptions == SeqsUpTo(FvAlphabet, MaxDescLen)
FvPatternLists ==
    { <<>>, << <<"a">> >>, << <<"B">> >>, << <<"A", "b">>, <<"b", "a">> >>, << <<>> >> }
FvEntries == {Entry(v, ps) : v \in {"V", "W"}, ps \in FvPatternLists}
             \cup {NotAList(v) : v \in {"V", "W"}}
\* patterns_wf is a dict: vendor names are distinct
FvConfigs == {c \in SeqsUpTo(FvEntries, 2) :
                 \A i, j \in 1..Len(c) : i # j => c[i].vendor # c[j].vendor}

MainIdle ==
    /\ cfg_file = [status |-> "missing", patterns_wf |-> <<>>, cash_investments |-> <<>>]
    /\ ledger = NoFile
    /\ raw_file = [exists |-> FALSE, rows |-> <<>>]
    /\ pc = "exit"
    /\ exit_code = 1
    /\ outcome = "config_error"
    /\ df_existing = EmptyFrame
    /\ df_new_processed = EmptyFrame
    /\ duplicate_keys_in_new = <<>>
    /\ removed = 0
    /\ user_input = <<>>
    /\ asked = FALSE
    /\ writes = 0
    /\ ledger_at_start = NoFile
    /\ prev_outcome = "none"
    /\ runs = MaxRuns

InitClassify ==
    /\ MainIdle
    /\ fv_description \in FvDescriptions
    /\ fv_patterns_wf \in FvConfigs
    /\ fv_vendor = "Other"
    /\ fv_pc = "ready"

\* line 88, one row: raw_df['description'].apply(find_vendor)
Classify ==
    /\ fv_pc = "ready"
    /\ fv_vendor' = find_vendor(fv_description, fv_patterns_wf)
    /\ fv_pc' = "done"
    /\ UNCHANGED <<fv_description, fv_patterns_wf, main_vars>>

NextClassify == Classify

SpecClassify == InitClassify /\ [][NextClassify]_vars

(***************************************************************************)
(* Properties                                                              *)
(***************************************************************************)
\* the run had a usable configuration, ledger (or none) and a readable batch
\* of the export's five columns
UsableInputs ==
    /\ cfg_file.status = "ok"
    /\ ~ledger_at_start.exists \/ HasKeyCols(ledger_at_start)
    /\ raw_file.exists
    /\ raw_file.rows # <<>>
    /\ Len(raw_file.rows[1]) = 5

\* positions of the new rows whose key is a key of the prior ledger
DuplicatePositions(df_new, df_old) ==
    LET known == Range(Keys(df_old))
    IN  {i \in 1..Len(df_new.rows) : RowKey(df_new.rows[i], df_new.dtype) \in known}

\* C1: running the merge twice in succession on the same batch, never
\* declining the confirmation, leaves the ledger of the first run (the
\* ledger the second run started from).
C1_Idempotent ==
    (pc = "exit" /\ runs >= 2 /\ outcome # "cancelled" /\ prev_outcome # "cancelled")
        => ledger = ledger_at_start

Accepting == {<<"y">>, <<"Y">>}

\* C3: with a duplicate among the new rows the ledger is written only after
\* an accepting answer; any other answer leaves the ledger untouched and ends
\* the run with status 0; without duplicates nothing is asked and the run
\* appends.
C3_ConfirmationGate ==
    LET dup == DuplicatePositions(df_new_processed, read_csv(ledger_at_start)) # {}
        merged == ledger_at_start.exists /\ outcome \in {"appended", "cancelled"}
    IN  /\ pc = "confirm" => dup /\ writes = 0 /\ ledger = ledger_at_start
        /\ (merged /\ dup) => asked
        /\ (merged /\ dup /\ writes > 0) => user_input \in Accepting
        /\ (pc = "exit" /\ asked /\ user_input \notin Accepting) =>
               /\ writes = 0
               /\ ledger = ledger_at_start
               /\ exit_code = 0
        /\ (merged /\ ~dup) => ~asked /\ outcome = "appended" /\ writes = 1

C3_Witness ==
    /\ pc = "exit" /\ outcome = "cancelled"
    /\ user_input = <<"y", "e", "s">>
    /\ ledger = ledger_at_start

\* a fatal condition named by the error taxonomy is present
FatalCondition ==
    \/ cfg_file.status # "ok"
    \/ ledger_at_start.exists /\ ~HasKeyCols(ledger_at_start)
    \/ raw_file.exists /\ raw_file.rows = <<>>
    \/ raw_file.exists /\ raw_file.rows # <<>> /\ Len(raw_file.rows[1]) < 3

BadRows == {i \in 1..Len(raw_file.rows) : raw_file.rows[i][2] \in BadAmountTexts}

C6_FirstThreeColumns ==
    ( /\ pc = "exit"
      /\ cfg_file.status = "ok"
      /\ ~ledger_at_start.exists
      /\ raw_file.exists /\ raw_file.rows # <<>>
      /\ Len(raw_file.rows[1]) >= 3
      /\ BadRows = {} ) =>
        /\ ledger.exists
        /\ Len(ledger.rows) = Len(raw_file.rows)
        /\ \A i \in 1..Len(raw_file.rows) :
               /\ i \in DOMAIN ledger.rows
               /\ ledger.rows[i].date = raw_file.rows[i][1]
               /\ ParseNumber(ledger.rows[i].amount).val
                      = ParseNumber(raw_file.rows[i][2]).val
               /\ ledger.rows[i].description = raw_file.rows[i][3]

\* C7: every record the classifier outputs, and every row of the ledger, is
\* cash_in when its amount is >= 0, otherwise cash_investments when its vendor
\* is an investment vendor, otherwise cash_out.
C7_Classification ==
    LET tag_ok(r) ==
            IF r.amount >= 0 THEN r.cash_flow = "cash_in"
            ELSE IF r.vendors \in Range(cfg_file.cash_investments)
                 THEN r.cash_flow = "cash_investments"
                 ELSE r.cash_flow = "cash_out"
        stored == read_csv(ledger).rows
    IN  /\ \A i \in 1..Len(df_new_processed.rows) : tag_ok(df_new_processed.rows[i])
        /\ ledger.exists => \A i \in 1..Len(stored) : tag_ok(stored[i])

C7_Witness ==
    /\ pc = "exit" /\ writes = 1
    /\ \E i \in 1..Len(ledger.rows) :
           /\ ledger.rows[i].cash_flow = "cash_investments"
    /\ \E i \in 1..Len(ledger.rows) :
           /\ ledger.rows[i].cash_flow = "cash_in"
           /\ ParseNumber(ledger.rows[i].amount).val = 0
    /\ \E i \in 1..Len(ledger.rows) :
           /\ ledger.rows[i].cash_flow = "cash_out"

\* pattern occurs in description, letter case ignored
OccursIgnoringCase(pattern, description) ==
    \E off \in 0..(Len(description) - Len(pattern)) :
        \A j \in 1..Len(pattern) : Lower(description[off + j]) = Lower(pattern[j])

\* positions of the configured vendors with a pattern occurring in the description
MatchingVendors(description, patterns_wf) ==
    {i \in 1..Len(patterns_wf) :
        \E k \in 1..Len(patterns_wf[i].patterns) :
            OccursIgnoringCase(patterns_wf[i].patterns[k], description)}

\* C8: the assigned vendor is the first configured vendor with a pattern
\* occurring in the description, letter case ignored, and "Other" exactly
\* when no configured vendor has one.
C8_FirstMatchWins ==
    fv_pc = "done" =>
        LET m == MatchingVendors(fv_description, fv_patterns_wf)
        IN  /\ m # {} =>
                fv_vendor = fv_patterns_wf[CHOOSE i \in m : \A j \in m : i <= j].vendor
            /\ fv_vendor = "Other" <=> m = {}

C8_Witness ==
    /\ fv_pc = "done"
    /\ Cardinality(MatchingVendors(fv_description, fv_patterns_wf)) = 2
    /\ fv_vendor = fv_patterns_wf[1].vendor
    /\ fv_description # LowerStr(fv_description)
    /\ \A i \in 1..2 : \A k \in 1..Len(fv_patterns_wf[i].patterns) :
           /\ fv_patterns_wf[i].patterns[k] # <<>>
           /\ ~Contains(fv_patterns_wf[i].patterns[k], fv_description)

\* C9 as claimed: without a prior ledger the ledger written is the whole
\* classifier output, and an empty input ends the run successfully with no
\* ledger created.
C9_NoLedgerRun ==
    (pc = "exit" /\ cfg_file.status = "ok" /\ ~ledger_at_start.exists) =>
        /\ ledger.exists => read_csv(ledger).rows = df_new_processed.rows
        /\ (raw_file.exists /\ raw_file.rows = <<>>) =>
               (exit_code = 0 /\ ~ledger.exists /\ writes = 0)

\* C10: under any other vendor configuration the same positions of the batch
\* are duplicates of the prior ledger (checked where the run has found its
\* duplicates: at the prompt and after an append), the rows agree on date,
\* amount and description, and as many rows are appended.
C10_IdentityIgnoresConfig ==
    (ledger_at_start.exists /\ (pc = "confirm" \/ outcome = "appended")) =>
        \A c2 \in GoodConfigs \ {cfg_file} :
            LET p2 == Frame(process_raw_transactions(raw_file.rows, c2.patterns_wf,
                                                     c2.cash_investments))
                old == read_csv(ledger_at_start)
                found == Range(duplicate_keys_in_new)
                dup1 == {i \in 1..Len(df_new_processed.rows) :
                            RowKey(df_new_processed.rows[i], df_new_processed.dtype)
                                \in found}
            IN  /\ Len(p2.rows) = Len(df_new_processed.rows)
                /\ DuplicatePositions(p2, old) = dup1
                /\ \A i \in 1..Len(p2.rows) :
                       /\ p2.rows[i].date = df_new_processed.rows[i].date
                       /\ p2.rows[i].amount = df_new_processed.rows[i].amount
                       /\ p2.rows[i].description = df_new_processed.rows[i].description
                /\ outcome = "appended" =>
                       Len(ledger.rows) = Len(ledger_at_start.rows)
                                            + Len(p2.rows) - Cardinality(dup1)

C10_Witness ==
    /\ pc = "confirm"
    /\ Len(duplicate_keys_in_new) = 1
    /\ Len(df_new_processed.rows) = 2
    /\ \E i \in 1..2 : df_new_processed.rows[i].vendors # "Other"

\* C11: the identity key is injective on (date, amount, description): where
\* the run has compared the keys (at the prompt and after an append), a new
\* row whose key equals the key of a ledger row has that row's date, amount
\* and description, so no new row counts as a duplicate of a ledger row that
\* differs from it in one of the three fields.
C11_KeysInjective ==
    (ledger_at_start.exists /\ (pc = "confirm" \/ outcome = "appended")) =>
        \A i \in 1..Len(df_new_processed.rows) :
            \A j \in 1..Len(df_existing.rows) :
                LET new == df_new_processed.rows[i]
                    old == df_existing.rows[j]
                IN  RowKey(new, df_new_processed.dtype) = RowKey(old, df_existing.dtype)
                        => /\ new.date = old.date
                           /\ new.amount = old.amount
                           /\ new.description = old.description

====
